---- MODULE Spec2Model ----
(***************************************************************************)
(* Model of the seller-apis repository: src/seller.py (Marketplace A,      *)
(* Ozon) and src/market.py (Marketplace B, Yandex Market).                 *)
(*                                                                         *)
(* Python str values are sequences of one-character strings, so that the   *)
(* text functions (str.split, re.sub, int) are computed character by       *)
(* character: "A1" is <<"A","1">>, "" is <<>>.  A printable ASCII character *)
(* is written as itself, a control character by its escape, any other      *)
(* character by its code point ("U+00A0").  Inventory records are          *)
(* [code, count, price] for the columns "Код", "Количество", "Цена": code  *)
(* is the text str() gives (the code only ever reads it through str()),    *)
(* count and price are the raw cells, which carry their Python type.       *)
(***************************************************************************)
EXTENDS Integers, Sequences, FiniteSets, TLC

VARIABLES
    entry,           \* the function of the repository that was invoked
    pc,              \* position in the invoked function
    channel,         \* "A" (seller.py), "FBS" or "DBS" (market.py)
    exc,             \* exception in flight, "none" when there is none
    cursor,          \* get_offer_ids: last_id (seller) / page (market)
    product_list,    \* get_offer_ids: accumulated identifiers
    requests,        \* number of page requests answered in this enumeration
    offer_ids,       \* the caller's identifier list
    watch_remnants,  \* the inventory list
    stocks,          \* create_stocks result
    prices,          \* create_prices result
    chunks,          \* list(divide(...)) being uploaded
    idx,             \* index of the next chunk to send
    args,            \* inputs of the invoked function, kept for reference
    calls,           \* log of the network calls issued, in order
    printed,         \* lines written by print()
    pending,         \* coroutine objects created and never driven
    catalog,         \* the catalog the listing endpoint is serving
    converted,       \* the text price_conversion returned
    exit             \* "running", "exit0" (normal end) or "traceback"

vars == <<entry, pc, channel, exc, cursor, product_list, requests, offer_ids,
          watch_remnants, stocks, prices, chunks, idx, args, calls, printed,
          pending, catalog, converted, exit>>

(***************************************************************************)
(* Bounds of the model.                                                    *)
(***************************************************************************)
MaxInv == 3        \* inventory records in the exhaustive reconciler inputs
MaxOffers == 3     \* identifiers in the exhaustive reconciler inputs
MaxLen == 7        \* list length in the exhaustive divide inputs
MaxN == 4          \* chunk size in the exhaustive divide inputs
MaxPages == 3      \* page requests answered by the unconstrained source
MaxRows == 2       \* inventory records in the bucketing inputs
MaxPriceLen == 5   \* characters in the exhaustive price inputs

(***************************************************************************)
(* Text helpers                                                            *)
(***************************************************************************)
Digits == {"0", "1", "2", "3", "4", "5", "6", "7", "8", "9"}

\* The decimal digits int() reads: the characters of category Nd in the
\* character database of the interpreter, one row per script, in the order
\* of their values 0..9.  The first row is ASCII.  The table is that of
\* CPython 3.11 (Unicode 14.0: 66 rows, 660 characters); the repository pins
\* no interpreter, and a later one reads the digits of further scripts.
DigitBlocks ==
    <<<<"0", "1", "2", "3", "4", "5", "6", "7", "8", "9">>,
      <<"U+0660", "U+0661", "U+0662", "U+0663", "U+0664", "U+0665", "U+0666", "U+0667", "U+0668", "U+0669">>,
      <<"U+06F0", "U+06F1", "U+06F2", "U+06F3", "U+06F4", "U+06F5", "U+06F6", "U+06F7", "U+06F8", "U+06F9">>,
      <<"U+07C0", "U+07C1", "U+07C2", "U+07C3", "U+07C4", "U+07C5", "U+07C6", "U+07C7", "U+07C8", "U+07C9">>,
      <<"U+0966", "U+0967", "U+0968", "U+0969", "U+096A", "U+096B", "U+096C", "U+096D", "U+096E", "U+096F">>,
      <<"U+09E6", "U+09E7", "U+09E8", "U+09E9", "U+09EA", "U+09EB", "U+09EC", "U+09ED", "U+09EE", "U+09EF">>,
      <<"U+0A66", "U+0A67", "U+0A68", "U+0A69", "U+0A6A", "U+0A6B", "U+0A6C", "U+0A6D", "U+0A6E", "U+0A6F">>,
      <<"U+0AE6", "U+0AE7", "U+0AE8", "U+0AE9", "U+0AEA", "U+0AEB", "U+0AEC", "U+0AED", "U+0AEE", "U+0AEF">>,
      <<"U+0B66", "U+0B67", "U+0B68", "U+0B69", "U+0B6A", "U+0B6B", "U+0B6C", "U+0B6D", "U+0B6E", "U+0B6F">>,
      <<"U+0BE6", "U+0BE7", "U+0BE8", "U+0BE9", "U+0BEA", "U+0BEB", "U+0BEC", "U+0BED", "U+0BEE", "U+0BEF">>,
      <<"U+0C66", "U+0C67", "U+0C68", "U+0C69", "U+0C6A", "U+0C6B", "U+0C6C", "U+0C6D", "U+0C6E", "U+0C6F">>,
      <<"U+0CE6", "U+0CE7", "U+0CE8", "U+0CE9", "U+0CEA", "U+0CEB", "U+0CEC", "U+0CED", "U+0CEE", "U+0CEF">>,
      <<"U+0D66", "U+0D67", "U+0D68", "U+0D69", "U+0D6A", "U+0D6B", "U+0D6C", "U+0D6D", "U+0D6E", "U+0D6F">>,
      <<"U+0DE6", "U+0DE7", "U+0DE8", "U+0DE9", "U+0DEA", "U+0DEB", "U+0DEC", "U+0DED", "U+0DEE", "U+0DEF">>,
      <<"U+0E50", "U+0E51", "U+0E52", "U+0E53", "U+0E54", "U+0E55", "U+0E56", "U+0E57", "U+0E58", "U+0E59">>,
      <<"U+0ED0", "U+0ED1", "U+0ED2", "U+0ED3", "U+0ED4", "U+0ED5", "U+0ED6", "U+0ED7", "U+0ED8", "U+0ED9">>,
      <<"U+0F20", "U+0F21", "U+0F22", "U+0F23", "U+0F24", "U+0F25", "U+0F26", "U+0F27", "U+0F28", "U+0F29">>,
      <<"U+1040", "U+1041", "U+1042", "U+1043", "U+1044", "U+1045", "U+1046", "U+1047", "U+1048", "U+1049">>,
      <<"U+1090", "U+1091", "U+1092", "U+1093", "U+1094", "U+1095", "U+1096", "U+1097", "U+1098", "U+1099">>,
      <<"U+17E0", "U+17E1", "U+17E2", "U+17E3", "U+17E4", "U+17E5", "U+17E6", "U+17E7", "U+17E8", "U+17E9">>,
      <<"U+1810", "U+1811", "U+1812", "U+1813", "U+1814", "U+1815", "U+1816", "U+1817", "U+1818", "U+1819">>,
      <<"U+1946", "U+1947", "U+1948", "U+1949", "U+194A", "U+194B", "U+194C", "U+194D", "U+194E", "U+194F">>,
      <<"U+19D0", "U+19D1", "U+19D2", "U+19D3", "U+19D4", "U+19D5", "U+19D6", "U+19D7", "U+19D8", "U+19D9">>,
      <<"U+1A80", "U+1A81", "U+1A82", "U+1A83", "U+1A84", "U+1A85", "U+1A86", "U+1A87", "U+1A88", "U+1A89">>,
      <<"U+1A90", "U+1A91", "U+1A92", "U+1A93", "U+1A94", "U+1A95", "U+1A96", "U+1A97", "U+1A98", "U+1A99">>,
      <<"U+1B50", "U+1B51", "U+1B52", "U+1B53", "U+1B54", "U+1B55", "U+1B56", "U+1B57", "U+1B58", "U+1B59">>,
      <<"U+1BB0", "U+1BB1", "U+1BB2", "U+1BB3", "U+1BB4", "U+1BB5", "U+1BB6", "U+1BB7", "U+1BB8", "U+1BB9">>,
      <<"U+1C40", "U+1C41", "U+1C42", "U+1C43", "U+1C44", "U+1C45", "U+1C46", "U+1C47", "U+1C48", "U+1C49">>,
      <<"U+1C50", "U+1C51", "U+1C52", "U+1C53", "U+1C54", "U+1C55", "U+1C56", "U+1C57", "U+1C58", "U+1C59">>,
      <<"U+A620", "U+A621", "U+A622", "U+A623", "U+A624", "U+A625", "U+A626", "U+A627", "U+A628", "U+A629">>,
      <<"U+A8D0", "U+A8D1", "U+A8D2", "U+A8D3", "U+A8D4", "U+A8D5", "U+A8D6", "U+A8D7", "U+A8D8", "U+A8D9">>,
      <<"U+A900", "U+A901", "U+A902", "U+A903", "U+A904", "U+A905", "U+A906", "U+A907", "U+A908", "U+A909">>,
      <<"U+A9D0", "U+A9D1", "U+A9D2", "U+A9D3", "U+A9D4", "U+A9D5", "U+A9D6", "U+A9D7", "U+A9D8", "U+A9D9">>,
      <<"U+A9F0", "U+A9F1", "U+A9F2", "U+A9F3", "U+A9F4", "U+A9F5", "U+A9F6", "U+A9F7", "U+A9F8", "U+A9F9">>,
      <<"U+AA50", "U+AA51", "U+AA52", "U+AA53", "U+AA54", "U+AA55", "U+AA56", "U+AA57", "U+AA58", "U+AA59">>,
      <<"U+ABF0", "U+ABF1", "U+ABF2", "U+ABF3", "U+ABF4", "U+ABF5", "U+ABF6", "U+ABF7", "U+ABF8", "U+ABF9">>,
      <<"U+FF10", "U+FF11", "U+FF12", "U+FF13", "U+FF14", "U+FF15", "U+FF16", "U+FF17", "U+FF18", "U+FF19">>,
      <<"U+104A0", "U+104A1", "U+104A2", "U+104A3", "U+104A4", "U+104A5", "U+104A6", "U+104A7", "U+104A8", "U+104A9">>,
      <<"U+10D30", "U+10D31", "U+10D32", "U+10D33", "U+10D34", "U+10D35", "U+10D36", "U+10D37", "U+10D38", "U+10D39">>,
      <<"U+11066", "U+11067", "U+11068", "U+11069", "U+1106A", "U+1106B", "U+1106C", "U+1106D", "U+1106E", "U+1106F">>,
      <<"U+110F0", "U+110F1", "U+110F2", "U+110F3", "U+110F4", "U+110F5", "U+110F6", "U+110F7", "U+110F8", "U+110F9">>,
      <<"U+11136", "U+11137", "U+11138", "U+11139", "U+1113A", "U+1113B", "U+1113C", "U+1113D", "U+1113E", "U+1113F">>,
      <<"U+111D0", "U+111D1", "U+111D2", "U+111D3", "U+111D4", "U+111D5", "U+111D6", "U+111D7", "U+111D8", "U+111D9">>,
      <<"U+112F0", "U+112F1", "U+112F2", "U+112F3", "U+112F4", "U+112F5", "U+112F6", "U+112F7", "U+112F8", "U+112F9">>,
      <<"U+11450", "U+11451", "U+11452", "U+11453", "U+11454", "U+11455", "U+11456", "U+11457", "U+11458", "U+11459">>,
      <<"U+114D0", "U+114D1", "U+114D2", "U+114D3", "U+114D4", "U+114D5", "U+114D6", "U+114D7", "U+114D8", "U+114D9">>,
      <<"U+11650", "U+11651", "U+11652", "U+11653", "U+11654", "U+11655", "U+11656", "U+11657", "U+11658", "U+11659">>,
      <<"U+116C0", "U+116C1", "U+116C2", "U+116C3", "U+116C4", "U+116C5", "U+116C6", "U+116C7", "U+116C8", "U+116C9">>,
      <<"U+11730", "U+11731", "U+11732", "U+11733", "U+11734", "U+11735", "U+11736", "U+11737", "U+11738", "U+11739">>,
      <<"U+118E0", "U+118E1", "U+118E2", "U+118E3", "U+118E4", "U+118E5", "U+118E6", "U+118E7", "U+118E8", "U+118E9">>,
      <<"U+11950", "U+11951", "U+11952", "U+11953", "U+11954", "U+11955", "U+11956", "U+11957", "U+11958", "U+11959">>,
      <<"U+11C50", "U+11C51", "U+11C52", "U+11C53", "U+11C54", "U+11C55", "U+11C56", "U+11C57", "U+11C58", "U+11C59">>,
      <<"U+11D50", "U+11D51", "U+11D52", "U+11D53", "U+11D54", "U+11D55", "U+11D56", "U+11D57", "U+11D58", "U+11D59">>,
      <<"U+11DA0", "U+11DA1", "U+11DA2", "U+11DA3", "U+11DA4", "U+11DA5", "U+11DA6", "U+11DA7", "U+11DA8", "U+11DA9">>,
      <<"U+16A60", "U+16A61", "U+16A62", "U+16A63", "U+16A64", "U+16A65", "U+16A66", "U+16A67", "U+16A68", "U+16A69">>,
      <<"U+16AC0", "U+16AC1", "U+16AC2", "U+16AC3", "U+16AC4", "U+16AC5", "U+16AC6", "U+16AC7", "U+16AC8", "U+16AC9">>,
      <<"U+16B50", "U+16B51", "U+16B52", "U+16B53", "U+16B54", "U+16B55", "U+16B56", "U+16B57", "U+16B58", "U+16B59">>,
      <<"U+1D7CE", "U+1D7CF", "U+1D7D0", "U+1D7D1", "U+1D7D2", "U+1D7D3", "U+1D7D4", "U+1D7D5", "U+1D7D6", "U+1D7D7">>,
      <<"U+1D7D8", "U+1D7D9", "U+1D7DA", "U+1D7DB", "U+1D7DC", "U+1D7DD", "U+1D7DE", "U+1D7DF", "U+1D7E0", "U+1D7E1">>,
      <<"U+1D7E2", "U+1D7E3", "U+1D7E4", "U+1D7E5", "U+1D7E6", "U+1D7E7", "U+1D7E8", "U+1D7E9", "U+1D7EA", "U+1D7EB">>,
      <<"U+1D7EC", "U+1D7ED", "U+1D7EE", "U+1D7EF", "U+1D7F0", "U+1D7F1", "U+1D7F2", "U+1D7F3", "U+1D7F4", "U+1D7F5">>,
      <<"U+1D7F6", "U+1D7F7", "U+1D7F8", "U+1D7F9", "U+1D7FA", "U+1D7FB", "U+1D7FC", "U+1D7FD", "U+1D7FE", "U+1D7FF">>,
      <<"U+1E140", "U+1E141", "U+1E142", "U+1E143", "U+1E144", "U+1E145", "U+1E146", "U+1E147", "U+1E148", "U+1E149">>,
      <<"U+1E2F0", "U+1E2F1", "U+1E2F2", "U+1E2F3", "U+1E2F4", "U+1E2F5", "U+1E2F6", "U+1E2F7", "U+1E2F8", "U+1E2F9">>,
      <<"U+1E950", "U+1E951", "U+1E952", "U+1E953", "U+1E954", "U+1E955", "U+1E956", "U+1E957", "U+1E958", "U+1E959">>,
      <<"U+1FBF0", "U+1FBF1", "U+1FBF2", "U+1FBF3", "U+1FBF4", "U+1FBF5", "U+1FBF6", "U+1FBF7", "U+1FBF8", "U+1FBF9">>>>

\* The characters int() reads as a decimal digit
DecimalDigits == {DigitBlocks[b][i] : b \in 1..Len(DigitBlocks), i \in 1..10}

\* The value of each decimal digit: its place in its row, from 0
DigitValues ==
    [c \in DecimalDigits |->
        (CHOOSE i \in 1..10 : \E b \in 1..Len(DigitBlocks) : DigitBlocks[b][i] = c) - 1]

\* The value of decimal digit c
DigitVal(c) == DigitValues[c]

\* The characters int() strips from both ends of a text: TAB, LF, VT, FF, CR,
\* the blank, NEL, the no-break space and the Unicode space separators.
Whitespace ==
    {"\t", "\n", "U+000B", "\f", "\r", " ", "U+0085", "U+00A0", "U+1680",
     "U+2000", "U+2001", "U+2002", "U+2003", "U+2004", "U+2005", "U+2006",
     "U+2007", "U+2008", "U+2009", "U+200A", "U+2028", "U+2029", "U+202F",
     "U+205F", "U+3000"}

DigitChar(d) ==
    CASE d = 0 -> "0" [] d = 1 -> "1" [] d = 2 -> "2" [] d = 3 -> "3"
      [] d = 4 -> "4" [] d = 5 -> "5" [] d = 6 -> "6" [] d = 7 -> "7"
      [] d = 8 -> "8" [] d = 9 -> "9"

\* The None object: no text equals it.
None == <<"None">>

RECURSIVE DigitsValue(_, _)
DigitsValue(t, acc) ==
    IF t = <<>> THEN acc ELSE DigitsValue(Tail(t), 10 * acc + DigitVal(Head(t)))

RECURSIVE StripLeft(_)
StripLeft(t) ==
    IF t # <<>> /\ Head(t) \in Whitespace THEN StripLeft(Tail(t)) ELSE t

RECURSIVE StripRight(_)
StripRight(t) ==
    IF t # <<>> /\ t[Len(t)] \in Whitespace
    THEN StripRight(SubSeq(t, 1, Len(t) - 1)) ELSE t

\* sys.int_max_str_digits as the interpreter starts with (CPython 3.11 and
\* later): the most digits int() converts from a text.
int_max_str_digits == 4300

\* For each digit of t, whether its value is zero
ZeroFlags(t) == [i \in 1..Len(t) |-> DigitVal(t[i]) = 0]

\* The digits t from the first one that is not a zero on, zero telling
\* which digits are zeros
SignificantFrom(t, zero) ==
    IF \A i \in 1..Len(t) : zero[i] THEN <<>>
    ELSE SubSeq(t, CHOOSE i \in 1..Len(t) :
                       ~zero[i] /\ \A j \in 1..(i - 1) : zero[j],
                Len(t))

\* The digits t without their leading zeros
Significant(t) == SignificantFrom(t, ZeroFlags(t))

\* int() of the digits of a well-formed text: ValueError for more than
\* int_max_str_digits digits (leading zeros count), else the value, which
\* is computed from the first digit that is not a zero on.
IntDigits(digits, negative) ==
    IF Len(digits) > int_max_str_digits THEN [ok |-> FALSE, val |-> 0]
    ELSE [ok |-> TRUE,
          val |-> (IF negative THEN 0 - 1 ELSE 1) * DigitsValue(Significant(digits), 0)]

\* Whether body, a text without surrounding whitespace and sign, is written
\* as int() requires: decimal digits of any script, single underscores
\* allowed between digits.
WellFormed(body) ==
    /\ body # <<>>
    /\ \A i \in 1..Len(body) : body[i] \in DecimalDigits \/ body[i] = "_"
    /\ body[1] # "_" /\ body[Len(body)] # "_"
    /\ \A i \in 1..(Len(body) - 1) : ~(body[i] = "_" /\ body[i + 1] = "_")

\* int() of a text without surrounding whitespace and sign; the
\* underscores are no digits.
IntBody(body, negative) ==
    IF ~WellFormed(body) THEN [ok |-> FALSE, val |-> 0]
    ELSE IntDigits(SelectSeq(body, LAMBDA c : c # "_"), negative)

\* int() of a text without surrounding whitespace: one sign is accepted
IntStripped(s) ==
    IF s # <<>> /\ Head(s) \in {"+", "-"} THEN IntBody(Tail(s), Head(s) = "-")
    ELSE IntBody(s, FALSE)

\* int(text) for a str: surrounding whitespace and one sign are accepted,
\* then decimal digits of any script, single underscores allowed between
\* digits; anything else raises ValueError, and so does a text of more than
\* int_max_str_digits digits (whitespace, the sign and the underscores are
\* not counted).  [ok |-> FALSE] stands for the raise.
PyInt(text) == IntStripped(StripRight(StripLeft(text)))

RECURSIVE NatText(_)
NatText(n) ==
    IF n < 10 THEN <<DigitChar(n)>> ELSE Append(NatText(n \div 10), DigitChar(n % 10))

\* str(n) for an int
IntText(n) == IF n < 0 THEN <<"-">> \o NatText(0 - n) ELSE NatText(n)

(***************************************************************************)
(* Spreadsheet cells.  A raw cell is a str, an int, a float, a bool or     *)
(* None (a missing column).  A float is held by its number of tenths (75   *)
(* is 7.5, 70 is 7.0), which covers the floats with one decimal; nan and   *)
(* inf are cells of their own.                                             *)
(***************************************************************************)
StrCell(text) == [type |-> "str", text |-> text, val |-> 0]
IntCell(n) == [type |-> "int", text |-> <<>>, val |-> n]
FloatCell(tenths) == [type |-> "float", text |-> <<>>, val |-> tenths]
BoolCell(b) == [type |-> "bool", text |-> <<>>, val |-> IF b THEN 1 ELSE 0]
NaNCell == [type |-> "nan", text |-> <<>>, val |-> 0]
InfCell == [type |-> "inf", text |-> <<>>, val |-> 0]
NoneCell == [type |-> "None", text |-> <<>>, val |-> 0]

Abs(n) == IF n < 0 THEN 0 - n ELSE n

\* str(cell)
StrOf(cell) ==
    CASE cell.type = "str" -> cell.text
      [] cell.type = "int" -> IntText(cell.val)
      [] cell.type = "float" ->
             (IF cell.val < 0 THEN <<"-">> ELSE <<>>)
                 \o NatText(Abs(cell.val) \div 10)
                 \o <<".", DigitChar(Abs(cell.val) % 10)>>
      [] cell.type = "bool" ->
             IF cell.val = 1 THEN <<"T", "r", "u", "e">>
             ELSE <<"F", "a", "l", "s", "e">>
      [] cell.type = "nan" -> <<"n", "a", "n">>
      [] cell.type = "inf" -> <<"i", "n", "f">>
      [] cell.type = "None" -> <<"N", "o", "n", "e">>

\* int(cell): [ok, val, exc].  A str is parsed, an int is itself, a float is
\* truncated towards zero (nan raises ValueError, inf OverflowError), a bool
\* is 0 or 1, None raises TypeError.
IntOf(cell) ==
    CASE cell.type = "str" ->
             LET r == PyInt(cell.text)
             IN  [ok |-> r.ok, val |-> r.val,
                  exc |-> IF r.ok THEN "none" ELSE "ValueError"]
      [] cell.type \in {"int", "bool"} -> [ok |-> TRUE, val |-> cell.val, exc |-> "none"]
      [] cell.type = "float" ->
             [ok |-> TRUE, exc |-> "none",
              val |-> IF cell.val < 0 THEN 0 - (Abs(cell.val) \div 10)
                      ELSE cell.val \div 10]
      [] cell.type = "nan" -> [ok |-> FALSE, val |-> 0, exc |-> "ValueError"]
      [] cell.type = "inf" -> [ok |-> FALSE, val |-> 0, exc |-> "OverflowError"]
      [] cell.type = "None" -> [ok |-> FALSE, val |-> 0, exc |-> "TypeError"]

\* x in lst
In(x, lst) == \E i \in 1..Len(lst) : lst[i] = x

\* Mutant of Remove: the last occurrence of x is removed.
Remove_last_occurrence(lst, x) ==
    LET i == CHOOSE k \in 1..Len(lst) :
                 lst[k] = x /\ \A j \in (k + 1)..Len(lst) : lst[j] # x
    IN  [k \in 1..(Len(lst) - 1) |-> IF k < i THEN lst[k] ELSE lst[k + 1]]

\* lst.remove(x): the first occurrence of x is removed (x is in lst)
Remove(lst, x) ==
    LET i == CHOOSE k \in 1..Len(lst) :
                 lst[k] = x /\ \A j \in 1..(k - 1) : lst[j] # x
    IN  [k \in 1..(Len(lst) - 1) |-> IF k < i THEN lst[k] ELSE lst[k + 1]]

(***************************************************************************)
(* seller.price_conversion                                                 *)
(***************************************************************************)
\* Mutant of BeforeFirstDot: price.rsplit(".", 1)[0], the text before the
\* last ".".
BeforeFirstDot_before_last_dot(price) ==
    IF \E i \in 1..Len(price) : price[i] = "."
    THEN LET d == CHOOSE i \in 1..Len(price) :
                      price[i] = "." /\ \A j \in (i + 1)..Len(price) : price[j] # "."
         IN  SubSeq(price, 1, d - 1)
    ELSE price

\* price.split(".")[0]: the text before the first ".", all of it without one
BeforeFirstDot(price) ==
    IF \E i \in 1..Len(price) : price[i] = "."
    THEN LET d == CHOOSE i \in 1..Len(price) :
                      price[i] = "." /\ \A j \in 1..(i - 1) : price[j] # "."
         IN  SubSeq(price, 1, d - 1)
    ELSE price

\* price_conversion(price) for a raw cell: [raised, exc, text].  price.split
\* exists for a str only: any other cell raises AttributeError.  The pattern
\* [^0-9] keeps the ASCII digits only.
price_conversion(price) ==
    IF price.type # "str"
    THEN [raised |-> TRUE, exc |-> "AttributeError", text |-> <<>>]
    ELSE [raised |-> FALSE, exc |-> "none",
          text |-> SelectSeq(BeforeFirstDot(price.text), LAMBDA c : c \in Digits)]

(***************************************************************************)
(* seller.divide                                                           *)
(***************************************************************************)
Min(a, b) == IF a < b THEN a ELSE b

\* lst[i : j] for 0 <= i <= j: the slice is clamped to the end of the list
Slice(lst, i, j) == SubSeq(lst, i + 1, Min(j, Len(lst)))

\* Mutant of DivideFrom: range(0, len(lst) - n + 1, n), which loses a short
\* last chunk.
RECURSIVE DivideFrom_full_chunks_only(_, _, _)
DivideFrom_full_chunks_only(lst, n, i) ==
    IF n = 0 THEN [raised |-> TRUE, chunks |-> <<>>]
    ELSE IF n < 0 \/ i + n > Len(lst) THEN [raised |-> FALSE, chunks |-> <<>>]
    ELSE [raised |-> FALSE,
          chunks |-> <<Slice(lst, i, i + n)>>
                        \o DivideFrom_full_chunks_only(lst, n, i + n).chunks]

\* The generator body: for i in range(0, len(lst), n): yield lst[i : i + n],
\* from position i on: [raised, chunks].  range() raises ValueError for a
\* step of 0 and is empty for a negative step.  The recursion is one level
\* per chunk.
RECURSIVE DivideFrom(_, _, _)
DivideFrom(lst, n, i) ==
    IF n = 0 THEN [raised |-> TRUE, chunks |-> <<>>]
    ELSE IF n < 0 \/ i >= Len(lst) THEN [raised |-> FALSE, chunks |-> <<>>]
    ELSE [raised |-> FALSE,
          chunks |-> <<Slice(lst, i, i + n)>> \o DivideFrom(lst, n, i + n).chunks]

\* list(divide(lst, n)): [raised, chunks], raised standing for ValueError
divide(lst, n) == DivideFrom(lst, n, 0)

(***************************************************************************)
(* The reconciler: create_stocks and create_prices of both platforms       *)
(***************************************************************************)
\* Mutant of Bucket: the elif branch for "1" is missing, so "1" is parsed.
Bucket_one_is_parsed(count) ==
    IF StrOf(count) = <<">", "1", "0">> THEN [ok |-> TRUE, val |-> 100, exc |-> "none"]
    ELSE IntOf(count)

\* seller.py 207-213 / market.py 144-150: the quantity of a matched record
\* whose raw quantity cell is count: [ok, val, exc].  The two special values
\* are tested on str(cell); int() is applied to the cell itself.
Bucket(count) ==
    IF StrOf(count) = <<">", "1", "0">> THEN [ok |-> TRUE, val |-> 100, exc |-> "none"]
    ELSE IF StrOf(count) = <<"1">> THEN [ok |-> TRUE, val |-> 0, exc |-> "none"]
    ELSE IntOf(count)

\* The timestamp of market.create_stocks (one value per call).
Date == "utcnow"

SellerStock(offer_id, stock) == [offer_id |-> offer_id, stock |-> stock]

MarketStock(sku, warehouse_id, count) ==
    [sku |-> sku, warehouseId |-> warehouse_id,
     items |-> <<[count |-> count, type |-> "FIT", updatedAt |-> Date]>>]

\* The stock record of either platform; warehouse_id is "" on platform A.
StockRecord(platform, warehouse_id, id, stock) ==
    IF platform = "seller" THEN SellerStock(id, stock)
    ELSE MarketStock(id, warehouse_id, stock)

\* The identifier a stock record carries.
StockId(platform, rec) == IF platform = "seller" THEN rec.offer_id ELSE rec.sku

\* Mutant of StockStep: the matched identifier is not removed from the list.
StockStep_no_remove(platform, warehouse_id, watch, st) ==
    IF st.raised \/ ~In(watch.code, st.offer_ids) THEN st
    ELSE LET b == Bucket(watch.count)
         IN  IF ~b.ok THEN [st EXCEPT !.raised = TRUE, !.exc = b.exc]
             ELSE [raised |-> FALSE, exc |-> "none",
                   stocks |-> Append(st.stocks,
                                 StockRecord(platform, warehouse_id, watch.code, b.val)),
                   offer_ids |-> st.offer_ids]

\* One pass of the first loop's body on record watch.  st is the loop state
\* [raised, exc, stocks, offer_ids]; a raise ends the loop, so later passes
\* keep st.
StockStep(platform, warehouse_id, watch, st) ==
    IF st.raised \/ ~In(watch.code, st.offer_ids) THEN st
    ELSE LET b == Bucket(watch.count)
         IN  IF ~b.ok THEN [st EXCEPT !.raised = TRUE, !.exc = b.exc]
             ELSE [raised |-> FALSE, exc |-> "none",
                   stocks |-> Append(st.stocks,
                                 StockRecord(platform, warehouse_id, watch.code, b.val)),
                   offer_ids |-> Remove(st.offer_ids, watch.code)]

\* The first loop on records lo..hi, in order.  The range is split in halves,
\* the first half being finished before the second starts, which keeps the
\* evaluation shallow on long inventories; a raise in the first half ends the
\* loop.
RECURSIVE StocksLoop(_, _, _, _, _, _)
StocksLoop(platform, warehouse_id, remnants, lo, hi, st) ==
    IF lo > hi THEN st
    ELSE IF lo = hi THEN StockStep(platform, warehouse_id, remnants[lo], st)
    ELSE LET mid == (lo + hi) \div 2
             first == StocksLoop(platform, warehouse_id, remnants, lo, mid, st)
         IN  IF first.raised THEN first
             ELSE StocksLoop(platform, warehouse_id, remnants, mid + 1, hi, first)

\* create_stocks: [raised, exc, stocks, offer_ids], offer_ids being the caller's list
\* as the call leaves it.  The second loop appends a zero record per identifier
\* left in the list.
CreateStocksOf(platform, warehouse_id, remnants, ids) ==
    LET st == StocksLoop(platform, warehouse_id, remnants, 1, Len(remnants),
                         [raised |-> FALSE, exc |-> "none", stocks |-> <<>>,
                          offer_ids |-> ids])
    IN  IF st.raised THEN st
        ELSE [st EXCEPT !.stocks =
                 st.stocks \o [k \in 1..Len(st.offer_ids) |->
                     StockRecord(platform, warehouse_id, st.offer_ids[k], 0)]]

seller_create_stocks(remnants, ids) == CreateStocksOf("seller", <<>>, remnants, ids)

market_create_stocks(remnants, ids, warehouse_id) ==
    CreateStocksOf("market", warehouse_id, remnants, ids)

\* The price record of a matched inventory record whose price cell is a str
SellerPrice(watch) ==
    [auto_action_enabled |-> "UNKNOWN", currency_code |-> "RUB",
     offer_id |-> watch.code, old_price |-> <<"0">>,
     price |-> price_conversion(watch.price).text]

\* int(price_conversion(price)) of market.py 200: [raised, exc, val].  The
\* conversion raises AttributeError for a cell that is no str; int() raises
\* ValueError when the price has no digit before its first ".".
MarketPriceValue(price) ==
    LET c == price_conversion(price)
        v == PyInt(c.text)
    IN  IF c.raised THEN [raised |-> TRUE, exc |-> c.exc, val |-> 0]
        ELSE IF ~v.ok THEN [raised |-> TRUE, exc |-> "ValueError", val |-> 0]
        ELSE [raised |-> FALSE, exc |-> "none", val |-> v.val]

MarketPrice(watch) ==
    [id |-> watch.code,
     price |-> [value |-> MarketPriceValue(watch.price).val, currencyId |-> "RUR"]]

\* The exception that ends a loop whose passes give the exceptions excs
\* ("none" for a pass that raises nothing): the first one raised, "none"
\* when no pass raises.
FirstRaise(excs) ==
    IF \A k \in 1..Len(excs) : excs[k] = "none" THEN "none"
    ELSE excs[CHOOSE k \in 1..Len(excs) :
                 excs[k] # "none" /\ \A j \in 1..(k - 1) : excs[j] = "none"]

\* create_prices: [raised, exc, prices]; the identifier list is only read.  The
\* loop stops at the first matched record whose price cell cannot be converted.
seller_create_prices(remnants, ids) ==
    LET matched == SelectSeq(remnants, LAMBDA w : In(w.code, ids))
        e == FirstRaise([k \in 1..Len(matched) |->
                            price_conversion(matched[k].price).exc])
    IN  IF e # "none" THEN [raised |-> TRUE, exc |-> e, prices |-> <<>>]
        ELSE [raised |-> FALSE, exc |-> "none",
              prices |-> [k \in 1..Len(matched) |-> SellerPrice(matched[k])]]

market_create_prices(remnants, ids) ==
    LET matched == SelectSeq(remnants, LAMBDA w : In(w.code, ids))
        e == FirstRaise([k \in 1..Len(matched) |->
                            MarketPriceValue(matched[k].price).exc])
    IN  IF e # "none" THEN [raised |-> TRUE, exc |-> e, prices |-> <<>>]
        ELSE [raised |-> FALSE, exc |-> "none",
              prices |-> [k \in 1..Len(matched) |-> MarketPrice(matched[k])]]

CreatePricesOf(platform, remnants, ids) ==
    IF platform = "seller" THEN seller_create_prices(remnants, ids)
    ELSE market_create_prices(remnants, ids)

(***************************************************************************)
(* Chunk sizes of the upload call sites                                    *)
(***************************************************************************)
SellerMainStockChunk == 100
SellerMainPriceChunk == 900
SellerUploadPricesChunk == 1000
SellerUploadStocksChunk == 100
MarketStockChunk == 2000
MarketUploadPricesChunk == 500
MarketUploadStocksChunk == 2000

\* Mutant of ChunkSize: main of seller.py cuts prices as upload_prices does.
ChunkSize_main_prices_as_upload(e, at) ==
    CASE e = "seller.main" /\ at = "update_stocks" -> SellerMainStockChunk
      [] e = "seller.main" /\ at = "update_price" -> SellerUploadPricesChunk
      [] e = "seller.upload_prices" -> SellerUploadPricesChunk
      [] e = "seller.upload_stocks" -> SellerUploadStocksChunk
      [] e = "market.main" -> MarketStockChunk
      [] e = "market.upload_prices" -> MarketUploadPricesChunk
      [] e = "market.upload_stocks" -> MarketUploadStocksChunk

\* The second argument of divide at the loop that position at of function e runs.
ChunkSize(e, at) ==
    CASE e = "seller.main" /\ at = "update_stocks" -> SellerMainStockChunk
      [] e = "seller.main" /\ at = "update_price" -> SellerMainPriceChunk
      [] e = "seller.upload_prices" -> SellerUploadPricesChunk
      [] e = "seller.upload_stocks" -> SellerUploadStocksChunk
      [] e = "market.main" -> MarketStockChunk
      [] e = "market.upload_prices" -> MarketUploadPricesChunk
      [] e = "market.upload_stocks" -> MarketUploadStocksChunk

(***************************************************************************)
(* The functions that can be invoked, and the order of their statements    *)
(***************************************************************************)
Mains == {"seller.main", "market.main"}
Coroutines == {"seller.upload_prices", "seller.upload_stocks",
               "market.upload_prices", "market.upload_stocks"}
Enumerators == {"seller.get_offer_ids", "market.get_offer_ids"}
Reconcilers == {"seller.create_stocks", "seller.create_prices",
                "market.create_stocks", "market.create_prices"}

Platform(e) ==
    IF e \in {"seller.main", "seller.upload_prices", "seller.upload_stocks",
              "seller.get_offer_ids", "seller.create_stocks",
              "seller.create_prices", "seller.divide",
              "seller.price_conversion"}
    THEN "seller" ELSE "market"

\* The warehouse identifier market.main passes for a channel (from the
\* environment); seller.create_stocks takes none.
Warehouse(ch) ==
    CASE ch = "FBS" -> "WAREHOUSE_FBS_ID"
      [] ch = "DBS" -> "WAREHOUSE_DBS_ID"
      [] OTHER -> <<>>

\* The first statement of function e.
FirstPc(e) ==
    CASE e = "market.main" -> "download_stock"
      [] e \in {"seller.create_stocks", "market.create_stocks"} -> "create_stocks"
      [] e \in {"seller.create_prices", "market.create_prices"} -> "create_prices"
      [] e = "seller.divide" -> "divide"
      [] e = "seller.price_conversion" -> "price_conversion"
      [] OTHER -> "get_offer_ids"

\* The statement that follows statement at of function e on channel ch, and
\* the channel it works on.
NextPc(e, ch, at) ==
    CASE e = "seller.main" ->
           [channel |-> ch,
            pc |-> CASE at = "get_offer_ids" -> "download_stock"
                     [] at = "download_stock" -> "create_stocks"
                     [] at = "create_stocks" -> "update_stocks"
                     [] at = "update_stocks" -> "create_prices"
                     [] at = "create_prices" -> "update_price"
                     [] OTHER -> "return"]
      [] e = "market.main" ->
           CASE at = "download_stock" -> [channel |-> "FBS", pc |-> "get_offer_ids"]
             [] at = "get_offer_ids" -> [channel |-> ch, pc |-> "create_stocks"]
             [] at = "create_stocks" -> [channel |-> ch, pc |-> "update_stocks"]
             [] at = "update_stocks" -> [channel |-> ch, pc |-> "upload_prices"]
             [] at = "upload_prices" /\ ch = "FBS" ->
                    [channel |-> "DBS", pc |-> "get_offer_ids"]
             [] OTHER -> [channel |-> ch, pc |-> "return"]
      [] e \in {"seller.upload_prices", "market.upload_prices"} ->
           [channel |-> ch,
            pc |-> CASE at = "get_offer_ids" -> "create_prices"
                     [] at = "create_prices" -> "update_price"
                     [] OTHER -> "return"]
      [] e \in {"seller.upload_stocks", "market.upload_stocks"} ->
           [channel |-> ch,
            pc |-> CASE at = "get_offer_ids" -> "create_stocks"
                     [] at = "create_stocks" -> "update_stocks"
                     [] OTHER -> "return"]
      [] OTHER -> [channel |-> ch, pc |-> "return"]

\* Whether statement at of function e is inside a try block of e.
InTry(e, at) ==
    \/ e = "seller.main"
    \/ e = "market.main" /\ at # "download_stock"

(***************************************************************************)
(* Exceptions and the handlers of main                                     *)
(***************************************************************************)
\* What a network call can raise: the transport's errors, the HTTPError of
\* raise_for_status(), the error of response.json().
NetErrors == {"ReadTimeout", "ConnectTimeout", "ConnectionError", "HTTPError",
              "JSONDecodeError"}

\* The classes an exception is an instance of, among those the handlers name
\* (requests.exceptions: ConnectTimeout derives from ConnectionError and
\* Timeout, ReadTimeout from Timeout only).
Classes(e) ==
    CASE e = "ReadTimeout" -> {"ReadTimeout", "Timeout", "Exception"}
      [] e = "ConnectTimeout" ->
             {"ConnectTimeout", "ConnectionError", "Timeout", "Exception"}
      [] e = "ConnectionError" -> {"ConnectionError", "Exception"}
      [] OTHER -> {e, "Exception"}

\* Mutant of Message: the first clause names Timeout instead of ReadTimeout.
Message_any_timeout(e) ==
    IF "Timeout" \in Classes(e) THEN "TIMEOUT"
    ELSE IF "ConnectionError" \in Classes(e) THEN "CONNECTION"
    ELSE "ERROR_2"

\* The except clauses of main, in order; the first that matches prints.
\* "TIMEOUT" is the read-timeout line, "CONNECTION" the connection-error
\* line, "ERROR_2" the generic one.
Message(e) ==
    IF "ReadTimeout" \in Classes(e) THEN "TIMEOUT"
    ELSE IF "ConnectionError" \in Classes(e) THEN "CONNECTION"
    ELSE "ERROR_2"

(***************************************************************************)
(* Inputs: identifiers, inventories, catalogs                              *)
(***************************************************************************)
A1 == <<"A", "1">>
A2 == <<"A", "2">>
A3 == <<"A", "3">>
B9 == <<"B", "9">>

\* Raw cells.  The currency suffix is written in Latin letters.
Over10 == <<">", "1", "0">>
P500 == <<"5", "0", "0", ".", "0", "0", " ", "r", ".">>
P100 == <<"1", "0", "0", ".", "0", "0", " ", "r", ".">>
P5990 == <<"5", "'", "9", "9", "0", ".", "0", "0", " ", "r", "u", "b", ".">>
P1234 == <<"1", ",", "2", "3", "4", ".", "5", "0", " ", "$">>
PNoDigits == <<".", "5", "0">>

\* An inventory record with raw cells count and price
RawRow(code, count, price) == [code |-> code, count |-> count, price |-> price]

\* An inventory record whose quantity and price cells are the texts given
Row(code, count, price) == RawRow(code, StrCell(count), StrCell(price))

\* The records the exhaustive reconciler inputs are built from.
Rows ==
    {Row(A1, Over10, P500), Row(A2, <<"1">>, P100), Row(A1, <<"7">>, P5990),
     Row(B9, <<"0">>, P1234), RawRow(A2, StrCell(<<"x">>), IntCell(500)),
     Row(A1, <<"1", "2">>, PNoDigits)}

SeqsUpTo(S, n) == UNION {[1..k -> S] : k \in 0..n}

\* The str quantity cells of the bucketing inputs: the two special values,
\* plain numbers, texts int() accepts that are neither (whitespace of several
\* kinds, sign, leading zero, underscore, a digit of another script), near
\* misses of the special values, and texts int() rejects.
CountTexts ==
    {Over10, <<"1">>, <<"7">>, <<"0">>,
     <<" ", "1">>, <<"0", "1">>, <<"+", "1">>, <<"-", "3">>, <<"1", "_", "0">>,
     <<"\t", "7">>, <<"7", "\n">>, <<"U+00A0", "7">>, <<"U+0663">>,
     <<">", "1">>, <<"1", ".", "0">>, <<"x">>, <<>>}

\* The quantity cells of the bucketing inputs: the str cells, and the cells
\* of the other types (int 1 and 7, float 1.0 and 7.5, True, inf, None).
Counts ==
    {StrCell(t) : t \in CountTexts}
        \cup {IntCell(1), IntCell(7), FloatCell(10), FloatCell(75), BoolCell(TRUE),
              InfCell, NoneCell}

\* The characters the exhaustive price inputs are written with: two digits,
\* the separator of split, a thousands separator, a letter and a digit of
\* another script.
PriceChars == {"5", "9", ".", ",", "r", "U+0663"}

\* The price cells price_conversion is applied to: every short text, the
\* documented examples, and cells that are no str.
PriceCells ==
    {StrCell(t) : t \in SeqsUpTo(PriceChars, MaxPriceLen)
                        \cup {P500, P100, P5990, P1234, PNoDigits}}
        \cup {IntCell(500), FloatCell(59900), NoneCell}

\* A text of one digit more than int() converts
OverLimitDigits == [i \in 1..(int_max_str_digits + 1) |-> "7"]

\* The records of the bucketing inputs: every quantity cell under two known
\* codes, and one record of an unknown code.
BucketRows ==
    {RawRow(code, count, StrCell(P100)) : code \in {A1, A2}, count \in Counts}
        \cup {Row(B9, <<"0">>, P100)}

\* Inventories with a quantity of more digits than int() converts: alone,
\* and after a record that is bucketed.
OverLimitInventories ==
    {<<Row(A1, OverLimitDigits, P100)>>,
     <<Row(A2, <<"7">>, P100), Row(A1, OverLimitDigits, P100)>>}

\* The identifier lists of the bucketing inputs
BucketIds == {<<A1, A2>>, <<A2, A3, A1>>}

\* n records of code A1
LongInventory(n) == [i \in 1..n |-> Row(A1, <<"7">>, P100)]

\* The inventory of the end-to-end scenario
ScenarioInventory == <<Row(A1, Over10, P500), Row(A2, <<"1">>, P100)>>

\* The spreadsheets download_stock may return in the orchestrator runs
Inventories ==
    {<<>>, ScenarioInventory,
     <<Row(A1, <<"7">>, P5990), Row(A1, <<"0">>, P1234)>>,
     <<Row(B9, <<"7">>, P100), Row(A2, <<"x">>, P100)>>,
     <<Row(A3, <<"1", "2">>, PNoDigits)>>,
     <<RawRow(A1, IntCell(7), IntCell(500)), RawRow(A2, NoneCell, StrCell(P100))>>}

\* A catalog is the sequence of pages its listing endpoint serves.
\* n identifiers "1", "2", ..., n in pages of size
NumberedCatalog(n, size) ==
    [k \in 1..((n + size - 1) \div size) |->
        [i \in 1..Min(size, n - (k - 1) * size) |-> NatText((k - 1) * size + i)]]

ScenarioCatalog == <<<<A1, A2, A3>>>>

SmallCatalogs ==
    {ScenarioCatalog, <<<<>>>>, <<<<A1, A2>>, <<A3>>>>, <<<<A1, A1>>>>,
     <<<<A2>>, <<>>, <<A3, A1>>>>}

\* The page sizes the listing requests ask for
SellerPageLimit == 1000
MarketPageLimit == 200

\* Catalogs one item longer than the stock chunk of the platform
LongCatalog(platform) ==
    IF platform = "seller"
    THEN NumberedCatalog(SellerMainStockChunk + 1, SellerPageLimit)
    ELSE NumberedCatalog(MarketStockChunk + 1, MarketPageLimit)

\* Record counts one longer than the price chunk of the call site
LongInventoryFor(e) ==
    LongInventory(CASE e = "seller.main" -> SellerMainPriceChunk + 1
                    [] e = "seller.upload_prices" -> SellerUploadPricesChunk + 1
                    [] OTHER -> MarketUploadPricesChunk + 1)

\* One page of n copies of identifier A1.  create_stocks removes one copy per
\* matching record, so seller.main has a price record to send only for a code
\* the catalog lists more often than the inventory does.
RepeatingCatalog(n) == <<[i \in 1..n |-> A1]>>

\* The inputs are paired so that a long list meets few others.
IsLongCatalog(c) == Len(c[1]) > 3
IsLongInventory(inv) == Len(inv) > 3

\* seller.main enumerates before it downloads: any catalog may come.
CatalogsFor(e, inv) ==
    IF IsLongInventory(inv) THEN {<<<<A1, A1>>>>}
    ELSE IF e = "seller.main"
         THEN SmallCatalogs \cup {LongCatalog("seller"),
                                  RepeatingCatalog(SellerMainPriceChunk + 2)}
    ELSE IF inv = ScenarioInventory
         THEN SmallCatalogs \cup {LongCatalog(Platform(e))}
    ELSE SmallCatalogs

InventoriesFor(e, c) ==
    IF ~IsLongCatalog(c) THEN Inventories
    ELSE IF c[1][1] = A1 THEN {LongInventoryFor(e)}
    ELSE {ScenarioInventory}

\* The product objects of a listing page, as each platform's API returns them
Product(platform, id) ==
    IF platform = "seller" THEN [offer_id |-> id]
    ELSE [offer |-> [shopSku |-> id]]

\* product.get("offer_id") / product.get("offer").get("shopSku")
ProductId(platform, product) ==
    IF platform = "seller" THEN product.offer_id ELSE product.offer.shopSku

(***************************************************************************)
(* The listing endpoint                                                    *)
(***************************************************************************)
RECURSIVE TotalOf(_)
TotalOf(cat) == IF cat = <<>> THEN 0 ELSE Len(Head(cat)) + TotalOf(Tail(cat))

\* The result object a paging source of catalog cat returns for the request
\* carrying cursor c: page k is asked for with the cursor page k - 1 returned.
\* items are the products; next is last_id (seller) or paging.nextPageToken
\* (market), empty after the last page; total is the size of the catalog.
PageReply(platform, cat, c) ==
    LET k == IF c = <<>> THEN 1 ELSE PyInt(c).val + 1
    IN  [items |-> [i \in 1..Len(cat[k]) |-> Product(platform, cat[k][i])],
         next |-> IF platform = "market" /\ k >= Len(cat) THEN <<>> ELSE NatText(k),
         total |-> IF platform = "seller" THEN TotalOf(cat) ELSE 0]

\* The replies of a source that is under no constraint
AnyPages == {<<>>, <<A1>>, <<A2, A1>>}
AnyTotals == {0, 2, 5}

AnyCursors(platform) ==
    IF platform = "seller" THEN {<<"t">>, <<"u">>} ELSE {<<>>, None, <<"t">>, <<"u">>}

AnyReplies(platform) ==
    {[items |-> [i \in 1..Len(p) |-> Product(platform, p[i])], next |-> c, total |-> t] :
        p \in AnyPages, c \in AnyCursors(platform),
        t \in IF platform = "seller" THEN AnyTotals ELSE {0}}

\* One entry of the log of network calls
Call(op, ch, arg, result, reply) ==
    [op |-> op, channel |-> ch, arg |-> arg, result |-> result, reply |-> reply]

(***************************************************************************)
(* get_offer_ids                                                           *)
(***************************************************************************)
\* Mutant of Exhausted: an empty page also ends the seller's loop.
Exhausted_empty_page_ends(platform, reply, n) ==
    IF platform = "seller" THEN reply.total = n \/ reply.items = <<>>
    ELSE reply.next \in {<<>>, None}

\* The loop's exit test after a reply, n being len(product_list):
\* seller.py 76 (total == len(product_list)), market.py 119 (not page).
Exhausted(platform, reply, n) ==
    IF platform = "seller" THEN reply.total = n ELSE reply.next \in {<<>>, None}

\* Mutant of NextCursor: the cursor is never advanced.
NextCursor_restart(reply) == <<>>

\* The cursor the next request carries after a reply
NextCursor(reply) == reply.next

\* product_list.extend(items)
Extend(lst, items) == lst \o items

\* One pass of the while loop on a reply; when the loop ends, the identifiers
\* are extracted and the function returns to its caller.
EnumPass(reply) ==
    LET platform == Platform(entry)
        list == Extend(product_list, reply.items)
        to == NextPc(entry, channel, pc)
    IN  /\ calls' = Append(calls, Call("get_product_list", channel, cursor, "ok", reply))
        /\ product_list' = list
        /\ cursor' = NextCursor(reply)
        /\ requests' = requests + 1
        /\ IF Exhausted(platform, reply, Len(list))
           THEN /\ offer_ids' = [i \in 1..Len(list) |-> ProductId(platform, list[i])]
                /\ pc' = to.pc
                /\ channel' = to.channel
           ELSE UNCHANGED <<offer_ids, pc, channel>>

Running == exit = "running" /\ exc = "none"

\* A page request answered by a paging source
GetProductList ==
    /\ Running /\ pc = "get_offer_ids"
    /\ \E cat \in IF requests = 0 THEN CatalogsFor(entry, watch_remnants) ELSE {catalog} :
          /\ catalog' = cat
          /\ EnumPass(PageReply(Platform(entry), cat, cursor))
    /\ UNCHANGED <<converted, entry, exc, watch_remnants, stocks, prices, chunks, idx, args,
                   printed, pending, exit>>

\* A page request answered by an unconstrained source
GetProductListAny ==
    /\ Running /\ pc = "get_offer_ids"
    /\ requests < MaxPages
    /\ \E reply \in AnyReplies(Platform(entry)) : EnumPass(reply)
    /\ UNCHANGED <<converted, entry, exc, watch_remnants, stocks, prices, chunks, idx, args,
                   printed, pending, catalog, exit>>

\* A page request that fails: a transport error, a non-success status, a body
\* that is no JSON, or a body without "result" (some_prod is None).
GetProductListFail ==
    /\ Running /\ pc = "get_offer_ids"
    /\ \E e \in NetErrors \cup {"AttributeError"} :
          /\ calls' = Append(calls, Call("get_product_list", channel, cursor, e, <<>>))
          /\ exc' = e
    /\ UNCHANGED <<converted, entry, pc, channel, cursor, product_list, requests, offer_ids,
                   watch_remnants, stocks, prices, chunks, idx, args, printed,
                   pending, catalog, exit>>

(***************************************************************************)
(* download_stock                                                          *)
(***************************************************************************)
DownloadStock ==
    /\ Running /\ pc = "download_stock"
    /\ \E inv \in InventoriesFor(entry, catalog) :
          /\ watch_remnants' = inv
          /\ calls' = Append(calls, Call("download_stock", channel, <<>>, "ok", <<>>))
    /\ LET to == NextPc(entry, channel, pc)
       IN  pc' = to.pc /\ channel' = to.channel
    /\ UNCHANGED <<converted, entry, exc, cursor, product_list, requests, offer_ids, stocks,
                   prices, chunks, idx, args, printed, pending, catalog, exit>>

\* The download fails, or the archive cannot be read.
DownloadStockFail ==
    /\ Running /\ pc = "download_stock"
    /\ \E e \in NetErrors \cup {"BadZipFile"} :
          /\ calls' = Append(calls, Call("download_stock", channel, <<>>, e, <<>>))
          /\ exc' = e
    /\ UNCHANGED <<converted, entry, pc, channel, cursor, product_list, requests, offer_ids,
                   watch_remnants, stocks, prices, chunks, idx, args, printed,
                   pending, catalog, exit>>

(***************************************************************************)
(* The reconciliation statements and the upload loops                      *)
(***************************************************************************)
\* The list the loop at position at runs over: list(divide(collection, size))
ChunksAt(at, collection) ==
    IF at \in {"update_stocks", "update_price"}
    THEN divide(collection, ChunkSize(entry, at)).chunks
    ELSE chunks

\* stocks = create_stocks(watch_remnants, offer_ids[, warehouse_id])
CreateStocks ==
    /\ Running /\ pc = "create_stocks"
    /\ LET r == CreateStocksOf(Platform(entry), Warehouse(channel),
                               watch_remnants, offer_ids)
           to == NextPc(entry, channel, pc)
       IN  /\ offer_ids' = r.offer_ids
           /\ IF r.raised
              THEN /\ exc' = r.exc
                   /\ UNCHANGED <<pc, stocks, chunks, idx>>
              ELSE /\ stocks' = r.stocks
                   /\ pc' = to.pc
                   /\ chunks' = ChunksAt(to.pc, r.stocks)
                   /\ idx' = 1
                   /\ exc' = exc
    /\ UNCHANGED <<converted, entry, channel, cursor, product_list, requests, watch_remnants,
                   prices, args, calls, printed, pending, catalog, exit>>

\* prices = create_prices(watch_remnants, offer_ids)
CreatePrices ==
    /\ Running /\ pc = "create_prices"
    /\ LET r == CreatePricesOf(Platform(entry), watch_remnants, offer_ids)
           to == NextPc(entry, channel, pc)
       IN  IF r.raised
           THEN /\ exc' = r.exc
                /\ UNCHANGED <<pc, prices, chunks, idx>>
           ELSE /\ prices' = r.prices
                /\ pc' = to.pc
                /\ chunks' = ChunksAt(to.pc, r.prices)
                /\ idx' = 1
                /\ exc' = exc
    /\ UNCHANGED <<converted, entry, channel, cursor, product_list, requests, offer_ids,
                   watch_remnants, stocks, args, calls, printed, pending, catalog,
                   exit>>

\* One pass of an upload loop: the update call for the next chunk succeeds.
UpdateStocks ==
    /\ Running /\ pc = "update_stocks" /\ idx <= Len(chunks)
    /\ calls' = Append(calls, Call("update_stocks", channel, chunks[idx], "ok", <<>>))
    /\ idx' = idx + 1
    /\ UNCHANGED <<converted, entry, pc, channel, exc, cursor, product_list, requests,
                   offer_ids, watch_remnants, stocks, prices, chunks, args,
                   printed, pending, catalog, exit>>

UpdatePrice ==
    /\ Running /\ pc = "update_price" /\ idx <= Len(chunks)
    /\ calls' = Append(calls, Call("update_price", channel, chunks[idx], "ok", <<>>))
    /\ idx' = idx + 1
    /\ UNCHANGED <<converted, entry, pc, channel, exc, cursor, product_list, requests,
                   offer_ids, watch_remnants, stocks, prices, chunks, args,
                   printed, pending, catalog, exit>>

\* Mutant of UpdateFail: the error of an update call is logged and swallowed,
\* and the loop goes on.
UpdateFail_swallowed ==
    /\ Running /\ pc \in {"update_stocks", "update_price"} /\ idx <= Len(chunks)
    /\ \E e \in NetErrors :
          calls' = Append(calls, Call(pc, channel, chunks[idx], e, <<>>))
    /\ idx' = idx + 1
    /\ UNCHANGED <<converted, entry, pc, channel, exc, cursor, product_list, requests,
                   offer_ids, watch_remnants, stocks, prices, chunks, args,
                   printed, pending, catalog, exit>>

\* The update call for the next chunk raises.
UpdateFail ==
    /\ Running /\ pc \in {"update_stocks", "update_price"} /\ idx <= Len(chunks)
    /\ \E e \in NetErrors :
          /\ calls' = Append(calls, Call(pc, channel, chunks[idx], e, <<>>))
          /\ exc' = e
    /\ UNCHANGED <<converted, entry, pc, channel, cursor, product_list, requests, offer_ids,
                   watch_remnants, stocks, prices, chunks, idx, args, printed,
                   pending, catalog, exit>>

\* The upload loop is over: the statement after it is next.
EndFor ==
    /\ Running /\ pc \in {"update_stocks", "update_price"} /\ idx > Len(chunks)
    /\ LET to == NextPc(entry, channel, pc)
       IN  pc' = to.pc /\ channel' = to.channel
    /\ UNCHANGED <<converted, entry, exc, cursor, product_list, requests, offer_ids,
                   watch_remnants, stocks, prices, chunks, idx, args, calls,
                   printed, pending, catalog, exit>>

\* market.main 277, 286: upload_prices(...) is called and not awaited.  The
\* call of an async function builds a coroutine object and runs none of its
\* body; the object is dropped.  The next statement starts the enumeration
\* of the DBS channel (its locals are fresh) or ends main.
CallUploadPrices ==
    /\ Running /\ pc = "upload_prices"
    /\ pending' = pending + 1
    /\ LET to == NextPc(entry, channel, pc)
       IN  /\ pc' = to.pc /\ channel' = to.channel
           /\ IF to.pc = "get_offer_ids"
              THEN cursor' = <<>> /\ product_list' = <<>> /\ requests' = 0
              ELSE UNCHANGED <<cursor, product_list, requests>>
    /\ UNCHANGED <<converted, entry, exc, offer_ids, watch_remnants, stocks, prices, chunks,
                   idx, args, calls, printed, catalog, exit>>

\* list(divide(lst, n)) on its own
Divide ==
    /\ Running /\ pc = "divide"
    /\ LET r == divide(args.lst, args.n)
       IN  IF r.raised
           THEN exc' = "ValueError" /\ UNCHANGED <<pc, chunks>>
           ELSE chunks' = r.chunks /\ pc' = "return" /\ exc' = exc
    /\ UNCHANGED <<converted, entry, channel, cursor, product_list, requests, offer_ids,
                   watch_remnants, stocks, prices, idx, args, calls, printed,
                   pending, catalog, exit>>

\* price_conversion(price) on its own
PriceConversion ==
    /\ Running /\ pc = "price_conversion"
    /\ LET r == price_conversion(args.price)
       IN  IF r.raised
           THEN exc' = r.exc /\ UNCHANGED <<pc, converted>>
           ELSE converted' = r.text /\ pc' = "return" /\ exc' = exc
    /\ UNCHANGED <<entry, channel, cursor, product_list, requests, offer_ids,
                   watch_remnants, stocks, prices, chunks, idx, args, calls,
                   printed, pending, catalog, exit>>

(***************************************************************************)
(* The end of the invoked function                                         *)
(***************************************************************************)
\* The function returns; for main the process ends with exit code 0.
Return ==
    /\ Running /\ pc = "return"
    /\ exit' = "exit0"
    /\ UNCHANGED <<converted, entry, pc, channel, exc, cursor, product_list, requests,
                   offer_ids, watch_remnants, stocks, prices, chunks, idx, args,
                   calls, printed, pending, catalog>>

\* An exception raised inside the try block of main reaches its handlers:
\* one line is printed and main returns.  pc stays at the raising statement.
Except ==
    /\ exit = "running" /\ exc # "none" /\ InTry(entry, pc)
    /\ printed' = Append(printed, Message(exc))
    /\ exit' = "exit0"
    /\ UNCHANGED <<converted, entry, pc, channel, exc, cursor, product_list, requests,
                   offer_ids, watch_remnants, stocks, prices, chunks, idx, args,
                   calls, pending, catalog>>

\* An exception raised outside any try block leaves the function; when the
\* function is main the interpreter prints a traceback and exits with code 1.
Propagate ==
    /\ exit = "running" /\ exc # "none" /\ ~InTry(entry, pc)
    /\ exit' = "traceback"
    /\ UNCHANGED <<converted, entry, pc, channel, exc, cursor, product_list, requests,
                   offer_ids, watch_remnants, stocks, prices, chunks, idx, args,
                   calls, printed, pending, catalog>>

(***************************************************************************)
(* Specifications                                                          *)
(***************************************************************************)
NoArgs ==
    [lst |-> <<>>, n |-> 1, watch_remnants |-> <<>>, offer_ids |-> <<>>,
     price |-> StrCell(<<>>)]

InitLocals ==
    /\ pc = FirstPc(entry)
    /\ exc = "none"
    /\ cursor = <<>>
    /\ product_list = <<>>
    /\ requests = 0
    /\ stocks = <<>>
    /\ prices = <<>>
    /\ chunks = <<>>
    /\ idx = 1
    /\ calls = <<>>
    /\ printed = <<>>
    /\ pending = 0
    /\ catalog = <<<<>>>>
    /\ converted = <<>>
    /\ exit = "running"

\* The orchestrators, and the upload coroutines driven on their own
Init ==
    /\ entry \in Mains \cup Coroutines
    /\ channel \in CASE Platform(entry) = "seller" -> {"A"}
                     [] entry = "market.main" -> {"FBS"}
                     [] OTHER -> {"FBS", "DBS"}
    /\ watch_remnants \in
          CASE entry \in Mains -> {<<>>}
            [] entry \in {"seller.upload_prices", "market.upload_prices"} ->
                  Inventories \cup {LongInventoryFor(entry)}
            [] OTHER -> Inventories
    /\ offer_ids = <<>>
    /\ args = [NoArgs EXCEPT !.watch_remnants = watch_remnants]
    /\ InitLocals

Next ==
    \/ GetProductList
    \/ GetProductListFail
    \/ DownloadStock
    \/ DownloadStockFail
    \/ CreateStocks
    \/ CreatePrices
    \/ UpdateStocks
    \/ UpdatePrice
    \/ UpdateFail
    \/ EndFor
    \/ CallUploadPrices
    \/ Return
    \/ Except
    \/ Propagate

Spec == Init /\ [][Next]_vars

\* create_stocks and create_prices on every small input
InitRecon ==
    /\ entry \in Reconcilers
    /\ channel = IF Platform(entry) = "seller" THEN "A" ELSE "FBS"
    /\ watch_remnants \in SeqsUpTo(Rows, MaxInv)
    /\ offer_ids \in SeqsUpTo({A1, A2}, MaxOffers)
    /\ args = [NoArgs EXCEPT !.watch_remnants = watch_remnants,
                             !.offer_ids = offer_ids]
    /\ InitLocals

NextRecon ==
    \/ CreateStocks
    \/ CreatePrices
    \/ Return
    \/ Propagate

SpecRecon == InitRecon /\ [][NextRecon]_vars

\* divide on every small list and chunk size, zero and a negative one included
InitDivide ==
    /\ entry = "seller.divide"
    /\ channel = "A"
    /\ watch_remnants = <<>>
    /\ offer_ids = <<>>
    /\ \E lst \in UNION {[1..k -> {"a", "b"}] : k \in 0..MaxLen}, n \in (0 - 1)..MaxN :
          args = [NoArgs EXCEPT !.lst = lst, !.n = n]
    /\ InitLocals

NextDivide ==
    \/ Divide
    \/ Return
    \/ Propagate

SpecDivide == InitDivide /\ [][NextDivide]_vars

\* get_offer_ids against an unconstrained source
InitEnum ==
    /\ entry \in Enumerators
    /\ channel = IF Platform(entry) = "seller" THEN "A" ELSE "FBS"
    /\ watch_remnants = <<>>
    /\ offer_ids = <<>>
    /\ args = NoArgs
    /\ InitLocals

NextEnum ==
    \/ GetProductListAny
    \/ Return

SpecEnum == InitEnum /\ [][NextEnum]_vars

\* create_stocks on every short inventory of the bucketing records, and on
\* the inventories with a quantity over the digit limit
InitBucket ==
    /\ entry \in {"seller.create_stocks", "market.create_stocks"}
    /\ channel = IF Platform(entry) = "seller" THEN "A" ELSE "FBS"
    /\ watch_remnants \in SeqsUpTo(BucketRows, MaxRows) \cup OverLimitInventories
    /\ offer_ids \in BucketIds
    /\ args = [NoArgs EXCEPT !.watch_remnants = watch_remnants,
                             !.offer_ids = offer_ids]
    /\ InitLocals

NextBucket ==
    \/ CreateStocks
    \/ Return
    \/ Propagate

SpecBucket == InitBucket /\ [][NextBucket]_vars

\* price_conversion on every short text, the documented examples and cells
\* that are no str
InitPrice ==
    /\ entry = "seller.price_conversion"
    /\ channel = "A"
    /\ watch_remnants = <<>>
    /\ offer_ids = <<>>
    /\ \E price \in PriceCells : args = [NoArgs EXCEPT !.price = price]
    /\ InitLocals

NextPrice ==
    \/ PriceConversion
    \/ Return
    \/ Propagate

SpecPrice == InitPrice /\ [][NextPrice]_vars

(***************************************************************************)
(* Properties                                                              *)
(***************************************************************************)
Range(seq) == {seq[i] : i \in 1..Len(seq)}

NoRepeats(seq) == \A i, j \in 1..Len(seq) : seq[i] = seq[j] => i = j

Returned == exit = "exit0" /\ exc = "none"

RECURSIVE Flatten(_)
Flatten(seqs) == IF seqs = <<>> THEN <<>> ELSE Head(seqs) \o Flatten(Tail(seqs))

\* The number of stock entries that carry identifier id
StockEntries(id) ==
    Cardinality({i \in 1..Len(stocks) : StockId(Platform(entry), stocks[i]) = id})

\* C1: when create_stocks (either platform) returns for a list of known
\* identifiers without repeats, its result holds exactly one entry for each
\* known identifier and no entry for any other code, whatever the inventory
\* (repeated codes, unknown codes).
C1_OneEntryPerIdentifier ==
    (/\ entry \in {"seller.create_stocks", "market.create_stocks"}
     /\ Returned
     /\ NoRepeats(args.offer_ids))
    => /\ \A id \in Range(args.offer_ids) : StockEntries(id) = 1
       /\ \A i \in 1..Len(stocks) :
             StockId(Platform(entry), stocks[i]) \in Range(args.offer_ids)

\* create_stocks has returned for an inventory that repeats a known code and
\* holds an unknown one, with a known identifier left unmatched.
C1_Witness ==
    /\ entry = "market.create_stocks"
    /\ Returned
    /\ args.offer_ids = <<A2, A1>>
    /\ Len(args.watch_remnants) = 3
    /\ args.watch_remnants[1].code = A1
    /\ args.watch_remnants[2].code = B9
    /\ args.watch_remnants[3].code = A1
    /\ Len(stocks) = 2

\* C8: for n >= 1, list(divide(lst, n)) has ceil(L/n) chunks, each of n elements except
\* possibly the last, which has 1..n; the chunks concatenated in order are
\* lst; an empty list gives no chunk.
C8_DivideChunks ==
    (entry = "seller.divide" /\ Returned /\ args.n >= 1) =>
        LET L == Len(args.lst)
            n == args.n
            count == Len(chunks)
        IN  /\ count * n >= L /\ (count - 1) * n < L
            /\ L = 0 => count = 0
            /\ \A k \in 1..(count - 1) : Len(chunks[k]) = n
            /\ count > 0 => Len(chunks[count]) \in 1..n
            /\ Flatten(chunks) = args.lst

\* divide has cut a list of 7 into chunks of 3, 3 and 1.
C8_Witness ==
    /\ entry = "seller.divide" /\ Returned
    /\ Len(args.lst) = 7 /\ args.n = 3
    /\ Len(chunks) = 3 /\ Len(chunks[3]) = 1

\* The calls of operation op on channel ch, in the order they were issued
CallsOf(op, ch) == SelectSeq(calls, LAMBDA c : c.op = op /\ c.channel = ch)

\* The payloads of those calls, concatenated
SentBy(op, ch) ==
    LET cs == CallsOf(op, ch) IN Flatten([k \in 1..Len(cs) |-> cs[k].arg])

\* The identifiers of the pages received on channel ch, in page order
PagesReceived(ch) ==
    LET cs == SelectSeq(calls, LAMBDA c :
                  c.op = "get_product_list" /\ c.channel = ch /\ c.result = "ok")
        items == Flatten([k \in 1..Len(cs) |-> cs[k].reply.items])
    IN  [i \in 1..Len(items) |-> ProductId(Platform(entry), items[i])]

\* The inventory records whose code is one of ids
Matching(ids) == SelectSeq(watch_remnants, LAMBDA w : w.code \in Range(ids))

\* C2 as claimed: a failure-free run of seller.main sends one price record for
\* every inventory record whose code is in the enumerated catalog, and none for
\* other codes.
C2_PricesForCatalogRecords ==
    (entry = "seller.main" /\ Returned) =>
        LET sent == SentBy("update_price", "A")
            expected == Matching(PagesReceived("A"))
        IN  /\ Len(sent) = Len(expected)
            /\ \A k \in 1..Len(sent) : sent[k].offer_id = expected[k].code

\* C3 as claimed: in a failure-free run of market.main each channel's price
\* collection is uploaded, one update_price call per chunk of at most 500.
C3_MarketPricesUploaded ==
    (entry = "market.main" /\ Returned) =>
        \A ch \in {"FBS", "DBS"} :
            LET expected == Matching(PagesReceived(ch))
            IN  (\A k \in 1..Len(expected) :
                     ~MarketPriceValue(expected[k].price).raised)
                => /\ Len(CallsOf("update_price", ch)) = (Len(expected) + 499) \div 500
                   /\ Len(SentBy("update_price", ch)) = Len(expected)

\* C4 as claimed: when a network call of the FBS channel fails in market.main,
\* the DBS channel is still enumerated in the same run.
C4_ChannelsIndependent ==
    (/\ entry = "market.main" /\ exit # "running"
     /\ \E i \in 1..Len(calls) :
           /\ calls[i].channel = "FBS" /\ calls[i].result # "ok"
           /\ calls[i].op \in {"get_product_list", "update_stocks", "update_price"})
    => CallsOf("get_product_list", "DBS") # <<>>

\* C5 as claimed: whichever step fails, main ends with exit code 0 and one
\* printed line.
C5_AlwaysExitZero ==
    (entry \in Mains /\ exit # "running") =>
        /\ exit = "exit0"
        /\ exc # "none" => Len(printed) = 1

\* The bucket the taxonomy gives a failure of kind e
BucketClaimed(e) ==
    CASE e = "ReadTimeout" -> "TIMEOUT"
      [] e \in {"ConnectionError", "ConnectTimeout"} -> "CONNECTION"
      [] OTHER -> "ERROR_2"

\* C6: a failure caught by the handlers of main is reported by exactly one
\* line, the one of its kind: read-timeout, connection failure, or generic for
\* everything else; nothing is printed without a caught failure.
C6_OneBucketPerFailure ==
    entry \in Mains =>
        /\ (exc # "none" /\ exit = "exit0") => printed = <<BucketClaimed(exc)>>
        /\ (exc = "none" \/ exit # "exit0") => printed = <<>>

\* main of seller.py has caught the ValueError of an unparsable quantity and
\* printed the generic line.
C6_Witness ==
    /\ entry = "seller.main" /\ exit = "exit0"
    /\ exc = "ValueError" /\ pc = "create_stocks"
    /\ printed = <<"ERROR_2">>

\* The items of the pages received by the first i page requests
ItemsUpTo(i) == Flatten([k \in 1..i |-> calls[k].reply.items])

\* Whether the reply to page request i signals exhaustion
Signals(i) ==
    IF Platform(entry) = "seller"
    THEN calls[i].reply.total = Len(ItemsUpTo(i))
    ELSE calls[i].reply.next = <<>> \/ calls[i].reply.next = None

\* C7: get_offer_ids (either platform) sends its first request with an empty
\* cursor and each later one with the cursor of the previous reply, sends no
\* request after a reply that signals exhaustion, stops right after the first
\* such reply, and returns the identifiers of all pages in page order.
C7_Enumeration ==
    entry \in Enumerators =>
        LET n == Len(calls)
        IN  /\ n >= 1 => calls[1].arg = <<>>
            /\ \A i \in 1..(n - 1) : calls[i + 1].arg = calls[i].reply.next
            /\ \A i \in 1..(n - 1) : ~Signals(i)
            /\ (n >= 1 /\ Signals(n)) => pc = "return"
            /\ pc = "return" =>
                  /\ n >= 1 /\ Signals(n)
                  /\ offer_ids = [i \in 1..Len(ItemsUpTo(n)) |->
                                     ProductId(Platform(entry), ItemsUpTo(n)[i])]

\* seller.get_offer_ids has returned 5 identifiers after 3 pages of 2, 2 and 1.
C7_Witness ==
    /\ entry = "seller.get_offer_ids" /\ Returned
    /\ Len(calls) = 3
    /\ Len(calls[1].reply.items) = 2
    /\ Len(calls[2].reply.items) = 2
    /\ Len(calls[3].reply.items) = 1
    /\ Len(offer_ids) = 5

\* The payload limit the claim gives each call site
LimitClaimed(e, op) ==
    CASE e = "seller.main" /\ op = "update_stocks" -> 100
      [] e = "seller.main" /\ op = "update_price" -> 900
      [] e = "seller.upload_prices" -> 1000
      [] e = "seller.upload_stocks" -> 100
      [] Platform(e) = "market" /\ op = "update_stocks" -> 2000
      [] Platform(e) = "market" /\ op = "update_price" -> 500

\* The statements after the upload loop of op
PastLoop(op) ==
    IF op = "update_stocks"
    THEN {"create_prices", "update_price", "upload_prices", "return"}
    ELSE {"return"}

\* C9: every update call carries between 1 and the site's limit of records;
\* the calls of a site carry the consecutive slices of its collection, one
\* call per slice, in order, none sent twice or skipped; a loop that ends
\* without failure has sent the whole collection; an empty collection gives no
\* call.
C9_UploadCalls ==
    /\ \A i \in 1..Len(calls) :
          calls[i].op \in {"update_stocks", "update_price"} =>
              Len(calls[i].arg) \in 1..LimitClaimed(entry, calls[i].op)
    /\ \A op \in {"update_stocks", "update_price"} :
          LET coll == IF op = "update_stocks" THEN stocks ELSE prices
              sent == CallsOf(op, channel)
              N == LimitClaimed(entry, op)
          IN  /\ \A k \in 1..Len(sent) :
                    sent[k].arg = SubSeq(coll, (k - 1) * N + 1, Min(k * N, Len(coll)))
              /\ (Len(sent) - 1) * N < Len(coll) \/ sent = <<>>
              /\ (exc = "none" /\ pc \in PastLoop(op)) => Len(sent) * N >= Len(coll)

\* main of seller.py has sent 901 price records in two calls, of 900 and 1.
C9_Witness ==
    /\ entry = "seller.main" /\ Returned
    /\ Len(CallsOf("update_price", "A")) = 2
    /\ Len(CallsOf("update_price", "A")[1].arg) = 900
    /\ Len(CallsOf("update_price", "A")[2].arg) = 1

\* Whether a network call has failed
Failed == \E i \in 1..Len(calls) : calls[i].result # "ok"

\* C10: once a network call has failed, no network call is issued any more
\* (no retry, no further page or chunk, no later upload) and no reconciliation
\* result is produced.
C10_NoRetryNoContinuation ==
    [][Failed => /\ calls' = calls
                 /\ stocks' = stocks
                 /\ prices' = prices
                 /\ pc' = pc /\ idx' = idx /\ channel' = channel]_vars

\* market.main has ended after the first of two FBS stock chunks failed: the
\* second chunk and the DBS channel were left out.
C10_Witness ==
    /\ entry = "market.main" /\ exit = "exit0"
    /\ channel = "FBS" /\ pc = "update_stocks"
    /\ idx = 1 /\ Len(chunks) = 2
    /\ calls[Len(calls)].result = "HTTPError"
    /\ CallsOf("get_product_list", "DBS") = <<>>

\* The quantity a stock record carries
StockQty(platform, rec) ==
    IF platform = "seller" THEN rec.stock ELSE rec.items[1].count

\* The integer each quantity cell of Counts denotes
ParsedInteger(raw) ==
    CASE raw = StrCell(<<"7">>) -> 7
      [] raw = StrCell(<<"0">>) -> 0
      [] raw = StrCell(<<" ", "1">>) -> 1
      [] raw = StrCell(<<"0", "1">>) -> 1
      [] raw = StrCell(<<"+", "1">>) -> 1
      [] raw = StrCell(<<"-", "3">>) -> 0 - 3
      [] raw = StrCell(<<"1", "_", "0">>) -> 10
      [] raw = StrCell(<<"\t", "7">>) -> 7
      [] raw = StrCell(<<"7", "\n">>) -> 7
      [] raw = StrCell(<<"U+00A0", "7">>) -> 7
      [] raw = StrCell(<<"U+0663">>) -> 3
      [] raw = IntCell(7) -> 7
      [] raw = FloatCell(10) -> 1
      [] raw = FloatCell(75) -> 7
      [] raw = BoolCell(TRUE) -> 1

\* The bucketing rule as claimed: the raw values ">10" and "1" are the cells
\* written so (the text ">10", the text "1", the number 1).
QuantityClaimed(raw) ==
    CASE raw = StrCell(Over10) -> 100
      [] raw \in {StrCell(<<"1">>), IntCell(1)} -> 0
      [] OTHER -> ParsedInteger(raw)

\* How often x occurs among the first n elements of seq
Occurrences(seq, x, n) == Cardinality({j \in 1..n : seq[j] = x})

\* The codes of the inventory the call was given, in order
CodesGiven == [i \in 1..Len(args.watch_remnants) |-> args.watch_remnants[i].code]

\* Whether record i of the inventory is matched to a known identifier: its
\* code is in the caller's list more often than in the records before it.
IsMatched(i) ==
    Occurrences(CodesGiven, CodesGiven[i], i - 1)
        < Occurrences(args.offer_ids, CodesGiven[i], Len(args.offer_ids))

\* The positions of the matched records, in inventory order
MatchedRecords ==
    SelectSeq([i \in 1..Len(args.watch_remnants) |-> i], LAMBDA i : IsMatched(i))

\* C11: when create_stocks (either platform) returns, the record emitted for
\* each inventory record matched to a known identifier carries the bucketed
\* quantity (">10" gives 100, "1" gives 0, any other raw value its integer
\* parse), and every identifier that no inventory record matches has a record
\* and only records of quantity 0.
C11_Bucketing ==
    (entry \in {"seller.create_stocks", "market.create_stocks"} /\ Returned) =>
        LET platform == Platform(entry)
            m == MatchedRecords
        IN  /\ Len(stocks) >= Len(m)
            /\ \A k \in 1..Len(m) :
                  /\ StockId(platform, stocks[k]) = CodesGiven[m[k]]
                  /\ StockQty(platform, stocks[k])
                        = QuantityClaimed(args.watch_remnants[m[k]].count)
            /\ \A id \in Range(args.offer_ids) :
                  Occurrences(CodesGiven, id, Len(CodesGiven)) = 0 =>
                      /\ \E k \in 1..Len(stocks) : StockId(platform, stocks[k]) = id
                      /\ \A k \in 1..Len(stocks) :
                            StockId(platform, stocks[k]) = id
                                => StockQty(platform, stocks[k]) = 0

\* market.create_stocks has returned 100 for ">10", 0 for "1" and 0 for the
\* identifier no record matches.
C11_Witness ==
    /\ entry = "market.create_stocks" /\ Returned
    /\ args.offer_ids = <<A2, A3, A1>>
    /\ args.watch_remnants = <<Row(A1, Over10, P100), Row(A2, <<"1">>, P100)>>
    /\ Len(stocks) = 3
    /\ StockQty("market", stocks[1]) = 100
    /\ StockQty("market", stocks[2]) = 0
    /\ StockId("market", stocks[3]) = A3 /\ StockQty("market", stocks[3]) = 0

\* The position of the first "." of text, one past its end when it has none
FirstDot(text) ==
    IF \E i \in 1..Len(text) : text[i] = "."
    THEN CHOOSE i \in 1..Len(text) : text[i] = "." /\ \A j \in 1..(i - 1) : text[j] # "."
    ELSE Len(text) + 1

\* The positions of the digits of text that stand before its first "."
DigitPositions(text) == {i \in 1..(FirstDot(text) - 1) : text[i] \in Digits}

\* The k-th smallest element of the set of positions S
Kth(S, k) == CHOOSE p \in S : Cardinality({q \in S : q <= p}) = k

\* C12: for a price that is a string, price_conversion returns the digits 0-9,
\* in order, of the part of the text before its first "." (of the whole text
\* when it has none) and nothing else; the documented examples give "5990",
\* "100" and "1234".
C12_PriceConversion ==
    (entry = "seller.price_conversion" /\ Returned) =>
        LET S == DigitPositions(args.price.text)
        IN  /\ args.price.type = "str"
            /\ Len(converted) = Cardinality(S)
            /\ \A k \in 1..Len(converted) : converted[k] = args.price.text[Kth(S, k)]
            /\ args.price = StrCell(P5990) => converted = <<"5", "9", "9", "0">>
            /\ args.price = StrCell(P100) => converted = <<"1", "0", "0">>
            /\ args.price = StrCell(P1234) => converted = <<"1", "2", "3", "4">>

\* price_conversion has returned "5990" for "5'990.00 rub.".
C12_Witness ==
    /\ entry = "seller.price_conversion" /\ Returned
    /\ args.price = StrCell(P5990)
    /\ converted = <<"5", "9", "9", "0">>

\* Whether position j of the identifier list the call was given is left in
\* the list: the inventory has no more records of that identifier than the
\* list has occurrences of it before j (each matching record takes the first
\* occurrence left).
IsKept(j) ==
    Occurrences(args.offer_ids, args.offer_ids[j], j - 1)
        >= Occurrences(CodesGiven, args.offer_ids[j], Len(CodesGiven))

\* The identifiers left, in their original relative order
KeptIds ==
    LET kept == SelectSeq([j \in 1..Len(args.offer_ids) |-> j], LAMBDA j : IsKept(j))
    IN  [k \in 1..Len(kept) |-> args.offer_ids[kept[k]]]

\* Whether the call has ended: it returned or raised
Ended == exit # "running" \/ exc # "none"

\* C13 as claimed: once create_stocks (either platform) has ended, the
\* inventory list is as it was given and the caller's identifier list has
\* lost exactly one occurrence (the first left) per matched inventory record,
\* the other identifiers keeping their relative order; create_prices (either
\* platform) leaves both lists as they were given.
C13_AsClaimed ==
    /\ (entry \in {"seller.create_stocks", "market.create_stocks"} /\ Ended) =>
          /\ watch_remnants = args.watch_remnants
          /\ offer_ids = KeptIds
          /\ Len(args.offer_ids) - Len(offer_ids) = Len(MatchedRecords)
    /\ entry \in {"seller.create_prices", "market.create_prices"} =>
          /\ watch_remnants = args.watch_remnants
          /\ offer_ids = args.offer_ids

\* Whether position j of the identifier list the call was given is left in
\* the list once the first n inventory records have been handled
IsKeptAfter(j, n) ==
    Occurrences(args.offer_ids, args.offer_ids[j], j - 1)
        >= Occurrences(CodesGiven, args.offer_ids[j], n)

\* The identifiers left once the first n inventory records have been handled
KeptIdsAfter(n) ==
    LET kept == SelectSeq([j \in 1..Len(args.offer_ids) |-> j],
                          LAMBDA j : IsKeptAfter(j, n))
    IN  [k \in 1..Len(kept) |-> args.offer_ids[kept[k]]]

\* The matched records whose quantity cell is neither special value and is
\* rejected by int()
RejectedRecords ==
    {i \in 1..Len(args.watch_remnants) :
        /\ IsMatched(i)
        /\ StrOf(args.watch_remnants[i].count) \notin {<<">", "1", "0">>, <<"1">>}
        /\ ~IntOf(args.watch_remnants[i].count).ok}

\* C13: create_stocks (either platform) never changes the inventory list.
\* When it returns, the caller's identifier list has lost exactly one
\* occurrence (the first left) per matched inventory record, the other
\* identifiers keeping their relative order.  When it raises, on the first
\* matched record whose quantity int() rejects, the list has lost one
\* occurrence per record matched before that record and nothing else: the
\* identifier of the raising record and those of the records after it stay.
\* create_prices (either platform) leaves both lists as they were given,
\* whether it returns or raises.
C13_FrameEffect ==
    /\ entry \in {"seller.create_stocks", "market.create_stocks"} =>
          /\ watch_remnants = args.watch_remnants
          /\ Returned =>
                /\ RejectedRecords = {}
                /\ offer_ids = KeptIds
                /\ Len(args.offer_ids) - Len(offer_ids) = Len(MatchedRecords)
          /\ exc # "none" =>
                /\ RejectedRecords # {}
                /\ \E f \in RejectedRecords :
                      /\ \A i \in RejectedRecords : f <= i
                      /\ offer_ids = KeptIdsAfter(f - 1)
                      /\ In(CodesGiven[f], offer_ids)
    /\ entry \in {"seller.create_prices", "market.create_prices"} =>
          /\ watch_remnants = args.watch_remnants
          /\ offer_ids = args.offer_ids

\* seller.create_stocks has raised on the second record of an inventory
\* whose two records are matched: A1 of the first record is gone, A2 of the
\* raising record is still in the list.
C13_Witness ==
    /\ entry = "seller.create_stocks" /\ exc = "ValueError"
    /\ args.offer_ids = <<A1, A2>>
    /\ args.watch_remnants
          = <<Row(A1, Over10, P500), RawRow(A2, StrCell(<<"x">>), IntCell(500))>>
    /\ watch_remnants = args.watch_remnants
    /\ offer_ids = <<A2>>

\* Whether the total reported by reply i differs from the number of items
\* accumulated when it was received
Mismatch(i) == calls[i].reply.total # Len(ItemsUpTo(i))

\* C14: after every reply whose total differs from the accumulated item
\* count (an empty page and a count above the total included)
\* seller.get_offer_ids is in its loop and issues the next page request; it
\* returns only when the number of identifiers equals the total of the last
\* reply, so it does not return as long as that equality is not reached.
C14_SellerLoopExit ==
    entry = "seller.get_offer_ids" =>
        LET n == Len(calls)
        IN  /\ \A i \in 1..n :
                  Mismatch(i) => \/ i < n
                                 \/ pc = "get_offer_ids" /\ exit = "running"
            /\ (\A i \in 1..n : Mismatch(i)) => pc # "return" /\ exit # "exit0"
            /\ pc = "return" =>
                  /\ n >= 1
                  /\ Len(offer_ids) = calls[n].reply.total

\* seller.get_offer_ids has sent a third request after a reply of 2 items
\* with total 0 (count above the total) and an empty page with total 5, and
\* is still in its loop.
C14_Witness ==
    /\ entry = "seller.get_offer_ids" /\ pc = "get_offer_ids" /\ exit = "running"
    /\ Len(calls) = 3
    /\ Len(calls[1].reply.items) = 2 /\ calls[1].reply.total = 0
    /\ calls[2].reply.items = <<>> /\ calls[2].reply.total = 5
    /\ Mismatch(3)

====
